---- MODULE Spec2Model ----
(***************************************************************************)
(* FeedService (src/service/feedService.js): the service layer between the *)
(* API and the two collaborators it requires, feedModel (the Store) and    *)
(* redisHandle (the Cache).  Every exported operation is an async function *)
(* that suspends at each await; a call is modelled as a process whose pc   *)
(* names the await it is suspended at.  A step of a call is the            *)
(* collaborator answering that await together with the synchronous code    *)
(* that runs up to the next await, except where that synchronous code      *)
(* issues cache commands: those run in a step of their own, because the    *)
(* continuation runs strictly after the Store has answered.                *)
(***************************************************************************)
EXTENDS Integers, Sequences, FiniteSets, TLC

\* ------------------------------------------------------------------ bounds
MaxFeeds == 1          \* feed ids the Store hands out
MaxWait == 2           \* ticks a suspended counter read may wait for its turn
MaxComments == 1       \* comments the comment collaborator adds per feed

\* --------------------------------------------------------------- constants
TTL == 600             \* seconds, the expiry passed to setex
TickSeconds == 300     \* seconds that pass per Tick

Procs == {"p1", "p2"}                 \* concurrently running calls
Users == {"u1", "u2"}                 \* verified firebase uids
FeedIds == 1..MaxFeeds
ImageIds == 1..3
Kinds == {"likeCount", "commentCount"}
CreateDescriptions == {"hello"}
UpdateDescriptions == {"x"}
ImageUrlInputs == {<<>>, <<"a.jpg", "b.jpg">>}
NewImageUrls == {"c.jpg"}
NoUser == "-"
NoUrl == "-"

\* A feed id as the caller passes it: the id, with or without padding blanks.
RawIds == [id : FeedIds, pad : BOOLEAN]
NoId == [id |-> 0, pad |-> FALSE]

\* String.prototype.trim on a feed id.
trim(raw) == [raw EXCEPT !.pad = FALSE]

\* ------------------------------------------------------ number conversions
Digit(d) == <<"0", "1", "2", "3", "4", "5", "6", "7", "8", "9">>[d + 1]

RECURSIVE NumToStr(_)
\* String(n) for a count n >= 0, as the cache stores a number.
NumToStr(n) == IF n < 10 THEN <<Digit(n)>>
               ELSE NumToStr(n \div 10) \o <<Digit(n % 10)>>

DigitValue(c) == CHOOSE d \in 0..9 : Digit(d) = c

NaN == -1

RECURSIVE ParseDigits(_, _)
ParseDigits(s, acc) ==
  IF s = <<>> \/ Head(s) \notin {Digit(d) : d \in 0..9} THEN acc
  ELSE ParseDigits(Tail(s), 10 * acc + DigitValue(Head(s)))

\* parseInt(s, 10) on a string of the cache: the leading decimal digits.
parseInt(s) ==
  IF s = <<>> \/ Head(s) \notin {Digit(d) : d \in 0..9} THEN NaN
  ELSE ParseDigits(s, 0)

\* ---------------------------------------------------------------- results
Ok(v) == [ok |-> TRUE, msg |-> "", val |-> v]
Error(m) == [ok |-> FALSE, msg |-> m, val |-> 0]
NoResult == [ok |-> FALSE, msg |-> "pending", val |-> 0]

\* Faulty variant, for comparison: the error logged and not thrown again, so
\* that the call returns undefined.
handleErrorLogged(action, error) == [ok |-> TRUE, msg |-> "", val |-> 0]

\* handleError(action, error): logs, then throws a new Error carrying the
\* original message.
handleError(action, error) == Error(error.msg)

VARIABLES
  feeds,      \* Store: feed id -> [live, firebase_uid, description, withImages]
  images,     \* Store: feed id -> image id -> url (NoUrl when absent)
  likes,      \* Store: set of <<firebase_uid, feed id>>
  comments,   \* Store: feed id -> number of comments
  nextId,     \* Store: the next feed id it hands out
  cache,      \* Cache: <<kind, feed id>> -> entry
  calls,      \* Procs -> the call running in that slot
  last,       \* the call that returned last, with its result
  lastGet     \* history: the getLikeCount call that completed last

vars == <<feeds, images, likes, comments, nextId, cache, calls, last, lastGet>>
store == <<feeds, images, likes, comments, nextId>>

\* ------------------------------------------------------------------ Store
\* feedModel is required by the service and is not part of src/: its
\* operations are modelled from the Store contract (create/get/update/delete
\* by id, image append/update/delete/count, like create/delete/exists, like
\* and comment counts; every operation may fail with an infrastructure error).
\* A feed record; withImages is history: images were attached at creation.
\* A deleted feed's record is gone (live = FALSE); what stays of it is the
\* history of who its author was (ids are not handed out twice).
NoFeed == [live |-> FALSE, firebase_uid |-> NoUser, description |-> "",
           withImages |-> FALSE]
NoImages == [i \in ImageIds |-> NoUrl]
StoreFailure == "Store failure"
CacheFailure == "Cache failure"

\* feedModel.getFeedById: the record stored under exactly that id, or nothing.
feedModel_getFeedById(raw) ==
  IF raw.id \in FeedIds /\ ~raw.pad THEN feeds[raw.id] ELSE NoFeed

\* feedModel.getFeedImageCount
feedModel_getFeedImageCount(raw) ==
  IF raw.id \in FeedIds /\ ~raw.pad
  THEN Cardinality({i \in ImageIds : images[raw.id][i] # NoUrl})
  ELSE 0

\* feedModel.checkLikeStatus
feedModel_checkLikeStatus(uid, raw) == ~raw.pad /\ <<uid, raw.id>> \in likes

\* feedModel.getLikeCount
feedModel_getLikeCount(f) == Cardinality({u \in Users : <<u, f>> \in likes})

\* feedModel.getCommentCount
feedModel_getCommentCount(f) == comments[f]

StoreCount(kind, f) ==
  IF kind = "likeCount" THEN feedModel_getLikeCount(f)
  ELSE feedModel_getCommentCount(f)

\* ------------------------------------------------------------------ Cache
\* redisHandle is required by the service and is not part of src/: a
\* key-value store of strings with get, setex and del.  Commands of the one
\* client reach the server in the order they are issued, so a command takes
\* effect when it is issued; a command that fails has no effect.
\* An entry holds its string and the seconds it has left to live (ttl).
\* It also carries history the claims speak about: for how long its value has
\* not equalled the Store's count (okAge), how long after the Store
\* read it was written if the count changed in between (delay), which later
\* mutation of the feed it predates (stale), whether a del aimed at it
\* failed (delLost), and how long ago it was written (age).
Keys == Kinds \X FeedIds
NoEntry == [present |-> FALSE, val |-> <<>>, ttl |-> 0, delay |-> 0,
            okAge |-> 0, stale |-> "no", delLost |-> FALSE, age |-> 0]

\* redisHandle.get: the stored string, or null (an absent entry).
redisHandle_get(key) == cache[key]

\* redisHandle.del of `keys`, the ones in `lost` failing.
redisHandle_del(mode, keys, lost) ==
  [k \in Keys |->
     IF k \in keys \ lost THEN NoEntry
     ELSE IF k \in lost /\ cache[k].present /\ mode.hist = "mutations" THEN [cache[k] EXCEPT !.delLost = TRUE]
     ELSE cache[k]]

\* redisHandle.setex(key, ttl, value): String(value) stored, expiring after ttl.
redisHandle_setex(key, ttl, value, failed, okAge, delay, stale) ==
  IF failed THEN cache
  ELSE [cache EXCEPT ![key] =
          [present |-> TRUE, val |-> NumToStr(value), ttl |-> ttl,
           delay |-> delay, okAge |-> okAge, stale |-> stale, delLost |-> FALSE,
           age |-> 0]]

\* ------------------------------------------------------------------ calls
NoLast == [valid |-> FALSE, f |-> 0, val |-> 0, queried |-> FALSE, age |-> 0]

\* The locals of a call and what it has done so far: the cache commands it
\* issued (gets, sets, dels), its Store calls (storeCalls, of which writes),
\* whether its like or unlike asked the Store for what was already so (dup),
\* and the message of the failure it met (failure).
Idle == [op |-> "idle", pc |-> "idle", uid |-> NoUser, fid |-> NoId,
         description |-> "", imageUrls |-> <<>>, image_id |-> 0,
         newImageUrl |-> NoUrl, feedId |-> 0, cached |-> NoEntry,
         count |-> 0, waited |-> 0, okAge |-> 0, stale |-> "no",
         dels |-> {}, lost |-> FALSE, storeCalls |-> 0, queried |-> FALSE,
         pre |-> {}, preImages |-> NoImages, dup |-> FALSE,
         gets |-> 0, sets |-> 0, writes |-> 0, failure |-> "",
         prev |-> NoLast, res |-> NoResult]

Free(p) == calls[p].pc = "idle"

\* The executions a specification admits: mode.seq, one call at a time;
\* mode.cacheFails, cache commands may fail.  mode.hist names the history a
\* specification keeps for its claims: "mutations" (stale, delLost, lastGet,
\* pre), "ages" (okAge, delay, age) or "calls" (preImages).  mode.callers are the users who call, and
\* mode.imageUrls the image lists they create feeds with.
\* A call is invoked in a free slot; in a sequential execution only when no
\* other call is running (and then in the first slot).
Invoke(p, mode) ==
  Free(p) /\ (mode.seq => p = "p1" /\ \A q \in Procs : Free(q))

\* The outcomes of a cache command: it may fail where the cache can fail.
Failures(mode) == IF mode.cacheFails THEN BOOLEAN ELSE {FALSE}

\* The getLikeCount call that completed last, where that history is kept.
Note(mode, g) == IF mode.hist = "mutations" THEN g ELSE NoLast

Finish(c, r) == [c EXCEPT !.pc = "done", !.res = r]

\* Faulty variant, for comparison: the dels of both counters issued ahead of
\* the checks, so that a call that is then turned down has issued them.
RejectAfterDels(c, action, msg) ==
  Finish([c EXCEPT !.failure = msg,
                    !.dels = {<<"likeCount", c.fid.id>>, <<"commentCount", c.fid.id>>}],
         handleError(action, Error(msg)))

\* An error thrown inside the try, by the service or by an awaited call: the
\* catch hands it to handleError.  The call's record keeps the message of the
\* failure it met.
Reject(c, action, msg) ==
  Finish([c EXCEPT !.failure = msg], handleError(action, Error(msg)))

\* The call in slot p moves on to c; a call that has returned leaves its slot,
\* and `last` shows it until the next step.
Put(p, c) ==
  IF c.pc = "done"
  THEN calls' = [calls EXCEPT ![p] = Idle] /\ last' = c
  ELSE calls' = [calls EXCEPT ![p] = c] /\ last' = Idle

KindOf(op) == IF op = "getLikeCount" THEN "likeCount" ELSE "commentCount"

StaleAfter(mode, s, how) ==
  IF mode.hist # "mutations" THEN "no"
  ELSE IF s = "feed" \/ how = "feed" THEN "feed"
  ELSE IF s = "like" \/ how = "like" THEN "like" ELSE "no"

CountIn(kind, f, lk, cm) ==
  IF kind = "likeCount" THEN Cardinality({u \in Users : <<u, f>> \in lk})
  ELSE cm[f]

\* History kept when the Store's state of feed f changes to likes lk and
\* comments cm (how = "like" for a like or unlike, "feed" for an update or
\* delete, "no" otherwise): every cached or in-flight count of f predates the
\* change; a count that is right just before or just after it is right now.
OkAgeAfter(okAge, value, kind, f, lk, cm) ==
  IF value = StoreCount(kind, f) \/ value = CountIn(kind, f, lk, cm) THEN 0 ELSE okAge

\* The seconds a value has not equalled the Store's count, TickSeconds later.
OkAgeLater(mode, okAge, value, kind, f) ==
  IF mode.hist # "ages" \/ value = StoreCount(kind, f) THEN 0 ELSE okAge + TickSeconds

CacheAfterWrite(mode, c, f, how, lk, cm) ==
  [k \in Keys |->
     IF k[2] = f /\ c[k].present
     THEN [c[k] EXCEPT !.stale = StaleAfter(mode, @, how),
                       !.okAge = OkAgeAfter(@, parseInt(c[k].val), k[1], f, lk, cm)]
     ELSE c[k]]

CallsAfterWrite(mode, p, mine, f, how, lk, cm) ==
  [q \in Procs |->
     IF q = p THEN (IF mine.pc = "done" THEN Idle ELSE mine)
     ELSE IF calls[q].pc = "g_set" /\ calls[q].fid.id = f
     THEN [calls[q] EXCEPT !.stale = StaleAfter(mode, @, how),
                           !.okAge = OkAgeAfter(@, calls[q].count, KindOf(calls[q].op),
                                                f, lk, cm)]
     ELSE calls[q]]

PutAfterWrite(mode, p, mine, f, how, lk, cm) ==
  /\ calls' = CallsAfterWrite(mode, p, mine, f, how, lk, cm)
  /\ last' = IF mine.pc = "done" THEN mine ELSE Idle

Init ==
  /\ feeds = [f \in FeedIds |-> NoFeed]
  /\ images = [f \in FeedIds |-> NoImages]
  /\ likes = {}
  /\ comments = [f \in FeedIds |-> 0]
  /\ nextId = 1
  /\ cache = [k \in Keys |-> NoEntry]
  /\ calls = [p \in Procs |-> Idle]
  /\ last = Idle
  /\ lastGet = NoLast

\* ------------------------------------------------------------ environment
\* TickSeconds pass: every entry has that much less to live, and the Cache
\* drops the entries whose time is up.  A suspended counter read waits at
\* most MaxWait ticks for its continuation to run.
Tick(mode) ==
  /\ \A q \in Procs : calls[q].pc = "g_set" => calls[q].waited < MaxWait * TickSeconds
  /\ cache' = [k \in Keys |->
                 IF ~cache[k].present \/ cache[k].ttl <= TickSeconds THEN NoEntry
                 ELSE [cache[k] EXCEPT
                         !.ttl = @ - TickSeconds,
                         !.age = IF mode.hist = "ages" THEN @ + TickSeconds ELSE @,
                         !.okAge = OkAgeLater(mode, @, parseInt(cache[k].val),
                                              k[1], k[2])]]
  /\ calls' = [q \in Procs |->
                 IF calls[q].pc = "g_set"
                 THEN [calls[q] EXCEPT
                         !.waited = IF mode.hist = "ages" THEN @ + TickSeconds ELSE @,
                         !.okAge = OkAgeLater(mode, @, calls[q].count,
                                              KindOf(calls[q].op), calls[q].fid.id)]
                 ELSE calls[q]]
  /\ lastGet' = IF lastGet.valid /\ lastGet.age + TickSeconds < TTL
                THEN [lastGet EXCEPT !.age = @ + TickSeconds] ELSE NoLast
  /\ last' = Idle
  /\ UNCHANGED store

\* The comment collaborator adds a comment to a live feed.
CommentAdded(f, mode) ==
  LET cm == [comments EXCEPT ![f] = @ + 1] IN
  /\ feeds[f].live
  /\ comments[f] < MaxComments
  /\ comments' = cm
  /\ cache' = CacheAfterWrite(mode, cache, f, "no", likes, cm)
  /\ calls' = CallsAfterWrite(mode, "-", Idle, f, "no", likes, cm)
  /\ last' = Idle
  /\ UNCHANGED <<feeds, images, likes, nextId, lastGet>>

\* ------------------------------------------------------- counter reads
\* Faulty variants of the hit test, for comparison: the cached string tested
\* as a number (so that a cached "0" misses), and a test that never hits.
IsCacheHitNumber(cached) == cached.present /\ parseInt(cached.val) \notin {0, NaN}

IsCacheHitNever(cached) == FALSE

\* if (cachedLikeCount): a non-empty string is truthy, "0" included.
IsCacheHit(cached) == cached.present /\ cached.val # <<>>

\* Faulty variant, for comparison: the existence check left out.
FeedMissingNever(feed) == FALSE

\* if (!feed)
FeedMissing(feed) == ~feed.live

\* Faulty variant, for comparison: twice the expiry.
CacheTtlDouble(kind) == 2 * TTL

\* The expiry the service passes to setex.
CacheTtl(kind) == TTL

\* Faulty variant, for comparison: the cache write awaited inside the try, so
\* that its failure reaches the catch.
AfterCacheWriteAwaited(failed, action, normal) ==
  IF failed THEN handleError(action, Error(CacheFailure)) ELSE normal

\* Faulty variant, for comparison: a hit that renews the entry's expiry.
CacheOnHitRenewed(key) == [cache EXCEPT ![key].ttl = CacheTtl(key[1])]

\* A hit returns at once: no cache command follows the get, and the entry
\* keeps the time it has left.
CacheOnHit(key) == cache

\* A cache write is issued and not awaited: its failure reaches no catch, and
\* the call goes on to `normal`.
AfterCacheWrite(failed, action, normal) == normal

\* getLikeCount and getCommentCount: one algorithm, the counter kind apart.
GetCount(p, mode, op, action) ==
  LET c == calls[p]
      kind == KindOf(op)
      key == <<kind, c.fid.id>>
  IN
  \/ \* invoked; feed_id = feed_id.trim()
     /\ Invoke(p, mode)
     /\ \E raw \in RawIds :
          Put(p,
                      [Idle EXCEPT !.op = op, !.pc = "g_cache", !.fid = trim(raw)])
     /\ lastGet' = IF op = "getLikeCount" THEN lastGet ELSE NoLast
     /\ UNCHANGED <<store, cache>>
  \/ \* await redisHandle.get(key) fails
     /\ c.op = op /\ c.pc = "g_cache"
     /\ mode.cacheFails
     /\ Put(p, Reject([c EXCEPT !.gets = @ + 1], action, CacheFailure))
     /\ lastGet' = IF op = "getLikeCount" THEN NoLast ELSE lastGet
     /\ UNCHANGED <<store, cache>>
  \/ \* await redisHandle.get(key) answers: a hit returns parseInt of it
     /\ c.op = op /\ c.pc = "g_cache"
     /\ LET cached == redisHandle_get(key)
            prev == IF op = "getLikeCount" /\ lastGet.valid /\ lastGet.f = c.fid.id
                    THEN lastGet ELSE NoLast
            c1 == [c EXCEPT !.cached = cached, !.prev = prev, !.gets = @ + 1]
            r == Ok(parseInt(cached.val))
        IN IF IsCacheHit(cached)
           THEN /\ Put(p, Finish(c1, r))
                /\ lastGet' = IF op # "getLikeCount" THEN lastGet
                              ELSE Note(mode, [valid |-> ~cached.delLost, f |-> c.fid.id,
                                    val |-> r.val, queried |-> FALSE, age |-> 0])
           ELSE /\ Put(p, [c1 EXCEPT !.pc = "g_get"])
                /\ UNCHANGED lastGet
     /\ cache' = IF IsCacheHit(redisHandle_get(key)) THEN CacheOnHit(key) ELSE cache
     /\ UNCHANGED store
  \/ \* await feedModel.getFeedById(feed_id) fails
     /\ c.op = op /\ c.pc = "g_get"
     /\ Put(p,
                    Reject([c EXCEPT !.storeCalls = @ + 1], action, StoreFailure))
     /\ lastGet' = IF op = "getLikeCount" THEN NoLast ELSE lastGet
     /\ UNCHANGED <<store, cache>>
  \/ \* await feedModel.getFeedById(feed_id) answers
     /\ c.op = op /\ c.pc = "g_get"
     /\ LET feed == feedModel_getFeedById(c.fid)
            c1 == [c EXCEPT !.storeCalls = @ + 1]
        IN IF FeedMissing(feed)
           THEN /\ Put(p,
                               Reject(c1, action, "Feed not found"))
                /\ lastGet' = IF op = "getLikeCount" THEN NoLast ELSE lastGet
           ELSE /\ Put(p, [c1 EXCEPT !.pc = "g_count"])
                /\ UNCHANGED lastGet
     /\ UNCHANGED <<store, cache>>
  \/ \* await feedModel.getLikeCount / getCommentCount fails
     /\ c.op = op /\ c.pc = "g_count"
     /\ Put(p,
                    Reject([c EXCEPT !.storeCalls = @ + 1, !.queried = TRUE], action, StoreFailure))
     /\ lastGet' = IF op = "getLikeCount" THEN NoLast ELSE lastGet
     /\ UNCHANGED <<store, cache>>
  \/ \* await feedModel.getLikeCount / getCommentCount answers
     /\ c.op = op /\ c.pc = "g_count"
     /\ Put(p,
                    [c EXCEPT !.pc = "g_set", !.storeCalls = @ + 1, !.queried = TRUE,
                              !.count = StoreCount(kind, c.fid.id),
                              !.waited = 0, !.okAge = 0, !.stale = "no"])
     /\ UNCHANGED <<store, cache, lastGet>>
  \/ \* redisHandle.setex(key, 600, count), not awaited; return count
     /\ c.op = op /\ c.pc = "g_set"
     /\ \E failed \in Failures(mode) :
          LET r == AfterCacheWrite(failed, action, Ok(c.count)) IN
          /\ cache' = redisHandle_setex(key, CacheTtl(kind), c.count, failed,
                                        c.okAge,
                                        IF c.okAge = 0 THEN 0 ELSE c.waited, c.stale)
          /\ Put(p,
                         Finish([c EXCEPT !.lost = failed, !.waited = 0, !.okAge = 0,
                                          !.stale = "no", !.sets = @ + 1], r))
          /\ lastGet' = IF op # "getLikeCount" THEN lastGet
                        ELSE Note(mode, [valid |-> r.ok /\ ~failed, f |-> c.fid.id,
                                         val |-> r.val, queried |-> TRUE, age |-> 0])
     /\ UNCHANGED store

getLikeCount(p, mode) == GetCount(p, mode, "getLikeCount", "getting like count")

getCommentCount(p, mode) == GetCount(p, mode, "getCommentCount", "getting comment count")


\* ------------------------------------------------------- authorization
\* Faulty variant, for comparison: the ownership comparison left out.
IsAuthorAnyone(feed, firebase_uid) == TRUE

\* feed.firebase_uid !== firebase_uid, negated
IsAuthor(feed, firebase_uid) == feed.firebase_uid = firebase_uid

\* The gate of updateFeed, deleteFeed, updateFeedImage and deleteFeedImage:
\* the message thrown, or "" when the call may go on.
Gate(feed, firebase_uid) ==
  IF FeedMissing(feed) THEN "Feed not found"
  ELSE IF ~IsAuthor(feed, firebase_uid) THEN "Permission denied"
  ELSE ""

AfterGate(c, action, feed, nextPc) ==
  LET c1 == [c EXCEPT !.storeCalls = @ + 1] IN
  IF Gate(feed, c.uid) = "" THEN [c1 EXCEPT !.pc = nextPc]
  ELSE Reject(c1, action, Gate(feed, c.uid))

\* A Store call of the running call fails; the catch hands it to handleError.
StoreFails(p, op, pc, action) ==
  /\ calls[p].op = op /\ calls[p].pc = pc
  /\ Put(p,
                 Reject([calls[p] EXCEPT !.storeCalls = @ + 1], action, StoreFailure))
  /\ UNCHANGED <<store, cache, lastGet>>

\* Faulty variants, for comparison: the comment-count del left out, and the
\* like-count del left out.
CountKeysLikeOnly(f) == {<<"likeCount", f>>}

CountKeysCommentOnly(f) == {<<"commentCount", f>>}

LikeKeyNone(f) == {}

\* The keys a feed's creation, update and deletion delete from the cache.
CountKeys(f) == {<<"likeCount", f>>, <<"commentCount", f>>}

\* The key a like and an unlike delete from the cache.
LikeKey(f) == {<<"likeCount", f>>}

\* The dels of `keys` are issued (not awaited), any of them failing; the call
\* goes on to nextPc, or returns `normal` when nextPc is "done".
IssueDels(p, mode, action, keys, nextPc, normal) ==
  \E lost \in (IF mode.cacheFails THEN SUBSET keys ELSE {{}}) :
    LET c == [calls[p] EXCEPT !.dels = @ \cup keys, !.lost = (lost # {})]
        r == AfterCacheWrite(lost # {}, action, normal)
    IN /\ cache' = redisHandle_del(mode, keys, lost)
       /\ Put(p,
                      IF r = normal /\ nextPc # "done" THEN [c EXCEPT !.pc = nextPc]
                      ELSE Finish(c, r))
       /\ UNCHANGED <<store, lastGet>>

\* -------------------------------------------------------- feed lifecycle
createFeed(p, mode) ==
  LET c == calls[p]
      action == "creating feed"
  IN
  \/ \* invoked
     /\ Invoke(p, mode)
     /\ nextId + Cardinality({q \in Procs : calls[q].pc = "c_create"}) <= MaxFeeds
     /\ \E uid \in mode.callers, d \in CreateDescriptions, urls \in mode.imageUrls :
          Put(p,
                      [Idle EXCEPT !.op = "createFeed", !.pc = "c_create", !.uid = uid,
                                   !.description = d, !.imageUrls = urls])
     /\ lastGet' = NoLast
     /\ UNCHANGED <<store, cache>>
  \/ StoreFails(p, "createFeed", "c_create", action)
  \/ \* await feedModel.createFeed(firebase_uid, description)
     /\ c.op = "createFeed" /\ c.pc = "c_create"
     /\ feeds' = [feeds EXCEPT ![nextId] =
                    [live |-> TRUE, firebase_uid |-> c.uid, description |-> c.description,
                     withImages |-> FALSE]]
     /\ nextId' = nextId + 1
     /\ Put(p,
                    [c EXCEPT !.feedId = nextId, !.storeCalls = @ + 1, !.writes = @ + 1,
                              !.pc = IF Len(c.imageUrls) > 0 THEN "c_images" ELSE "c_del"])
     /\ UNCHANGED <<images, likes, comments, cache, lastGet>>
  \/ StoreFails(p, "createFeed", "c_images", action)
  \/ \* await feedModel.addFeedImages(feedId, imageUrls): images of a live feed
     /\ c.op = "createFeed" /\ c.pc = "c_images"
     /\ feeds[c.feedId].live
     /\ feeds' = [feeds EXCEPT ![c.feedId].withImages = TRUE]
     /\ images' = [images EXCEPT ![c.feedId] =
                     [i \in ImageIds |->
                        IF i <= Len(c.imageUrls) THEN c.imageUrls[i] ELSE @[i]]]
     /\ Put(p, [c EXCEPT !.storeCalls = @ + 1, !.writes = @ + 1, !.pc = "c_del"])
     /\ UNCHANGED <<likes, comments, nextId, cache, lastGet>>
  \/ \* redisHandle.del of both keys; return feedId
     /\ c.op = "createFeed" /\ c.pc = "c_del"
     /\ IssueDels(p, mode, action, CountKeys(c.feedId), "done", Ok(c.feedId))

updateFeed(p, mode) ==
  LET c == calls[p]
      action == "updating feed"
      f == c.fid.id
  IN
  \/ \* invoked; feed_id = feed_id.trim()
     /\ Invoke(p, mode)
     /\ \E raw \in RawIds, uid \in mode.callers, d \in UpdateDescriptions :
          Put(p,
                      [Idle EXCEPT !.op = "updateFeed", !.pc = "u_get", !.uid = uid,
                                   !.fid = trim(raw), !.description = d])
     /\ lastGet' = NoLast
     /\ UNCHANGED <<store, cache>>
  \/ StoreFails(p, "updateFeed", "u_get", action)
  \/ \* await feedModel.getFeedById(feed_id), then the gate
     /\ c.op = "updateFeed" /\ c.pc = "u_get"
     /\ Put(p,
                    AfterGate(c, action, feedModel_getFeedById(c.fid), "u_del"))
     /\ UNCHANGED <<store, cache, lastGet>>
  \/ \* redisHandle.del of both keys
     /\ c.op = "updateFeed" /\ c.pc = "u_del"
     /\ IssueDels(p, mode, action, CountKeys(f), "u_write", NoResult)
  \/ StoreFails(p, "updateFeed", "u_write", action)
  \/ \* return await feedModel.updateFeed(feed_id, description)
     /\ c.op = "updateFeed" /\ c.pc = "u_write"
     /\ feeds' = IF feeds[f].live THEN [feeds EXCEPT ![f].description = c.description]
                 ELSE feeds
     /\ cache' = CacheAfterWrite(mode, cache, f, "feed", likes, comments)
     /\ PutAfterWrite(mode, p, Finish([c EXCEPT !.storeCalls = @ + 1, !.writes = @ + 1],
                                           Ok(IF feeds[f].live THEN 1 ELSE 0)),
                                 f, "feed", likes, comments)
     /\ UNCHANGED <<images, likes, comments, nextId, lastGet>>

deleteFeed(p, mode) ==
  LET c == calls[p]
      action == "deleting feed"
      f == c.fid.id
      lk == {l \in likes : l[2] # f}
      cm == [comments EXCEPT ![f] = 0]
  IN
  \/ \* invoked; feed_id = feed_id.trim()
     /\ Invoke(p, mode)
     /\ \E raw \in RawIds, uid \in mode.callers :
          Put(p,
                      [Idle EXCEPT !.op = "deleteFeed", !.pc = "d_get", !.uid = uid,
                                   !.fid = trim(raw)])
     /\ lastGet' = NoLast
     /\ UNCHANGED <<store, cache>>
  \/ StoreFails(p, "deleteFeed", "d_get", action)
  \/ \* await feedModel.getFeedById(feed_id), then the gate
     /\ c.op = "deleteFeed" /\ c.pc = "d_get"
     /\ Put(p,
                    AfterGate(c, action, feedModel_getFeedById(c.fid), "d_del"))
     /\ UNCHANGED <<store, cache, lastGet>>
  \/ \* redisHandle.del of both keys
     /\ c.op = "deleteFeed" /\ c.pc = "d_del"
     /\ IssueDels(p, mode, action, CountKeys(f), "d_write", NoResult)
  \/ StoreFails(p, "deleteFeed", "d_write", action)
  \/ \* return await feedModel.deleteFeed(feed_id); the Store cascades
     /\ c.op = "deleteFeed" /\ c.pc = "d_write"
     /\ feeds' = [feeds EXCEPT ![f] = [NoFeed EXCEPT !.firebase_uid = feeds[f].firebase_uid]]
     /\ images' = [images EXCEPT ![f] = NoImages]
     /\ likes' = lk
     /\ comments' = cm
     /\ cache' = CacheAfterWrite(mode, cache, f, "feed", lk, cm)
     /\ PutAfterWrite(mode, p, Finish([c EXCEPT !.storeCalls = @ + 1, !.writes = @ + 1],
                                           Ok(IF feeds[f].live THEN 1 ELSE 0)),
                                 f, "feed", lk, cm)
     /\ UNCHANGED <<nextId, lastGet>>

\* ------------------------------------------------------------ feed images
\* Faulty variant, for comparison: an image change that invalidates the
\* feed's counters.
ImageCacheKeysCounters(f) == CountKeys(f)

\* The cache keys updateFeedImage and deleteFeedImage delete: none, neither
\* function names redisHandle.
ImageCacheKeys(f) == {}

updateFeedImage(p, mode) ==
  LET c == calls[p]
      action == "updating feed image"
      f == c.fid.id
  IN
  \/ \* invoked; the feed id is used as passed
     /\ Invoke(p, mode)
     /\ \E raw \in RawIds, uid \in mode.callers, i \in mode.imageIds, url \in NewImageUrls :
          Put(p,
                      [Idle EXCEPT !.op = "updateFeedImage", !.pc = "i_get", !.uid = uid,
                                   !.fid = raw, !.image_id = i, !.newImageUrl = url])
     /\ lastGet' = NoLast
     /\ UNCHANGED <<store, cache>>
  \/ StoreFails(p, "updateFeedImage", "i_get", action)
  \/ \* await feedModel.getFeedById(feed_id), then the gate
     /\ c.op = "updateFeedImage" /\ c.pc = "i_get"
     /\ Put(p,
                    AfterGate(c, action, feedModel_getFeedById(c.fid), "i_write"))
     /\ UNCHANGED <<store, cache, lastGet>>
  \/ StoreFails(p, "updateFeedImage", "i_write", action)
  \/ \* return await feedModel.updateFeedImage(feed_id, image_id, newImageUrl)
     /\ c.op = "updateFeedImage" /\ c.pc = "i_write"
     /\ LET there == images[f][c.image_id] # NoUrl IN
        /\ images' = IF there THEN [images EXCEPT ![f][c.image_id] = c.newImageUrl]
                     ELSE images
        /\ Put(p,
                       Finish([c EXCEPT !.storeCalls = @ + 1, !.writes = @ + 1,
                                        !.dels = @ \cup ImageCacheKeys(f)],
                              Ok(IF there THEN 1 ELSE 0)))
     /\ cache' = redisHandle_del(mode, ImageCacheKeys(f), {})
     /\ UNCHANGED <<feeds, likes, comments, nextId, lastGet>>

\* History: the images of the feed when deleteFeedImage is invoked.
ImagesNow(mode, raw) ==
  IF mode.hist = "calls" /\ raw.id \in FeedIds /\ ~raw.pad THEN images[raw.id]
  ELSE NoImages

\* Faulty variant, for comparison: the floor off by one.
IsLastImageZero(imageCount) == imageCount <= 0

\* imageCount <= 1
IsLastImage(imageCount) == imageCount <= 1

deleteFeedImage(p, mode) ==
  LET c == calls[p]
      action == "deleting feed image"
      f == c.fid.id
  IN
  \/ \* invoked; the feed id is used as passed
     /\ Invoke(p, mode)
     /\ \E raw \in RawIds, uid \in mode.callers, i \in mode.imageIds :
          Put(p,
                      [Idle EXCEPT !.op = "deleteFeedImage", !.pc = "x_get", !.uid = uid,
                                   !.fid = raw, !.image_id = i,
                                   !.preImages = ImagesNow(mode, raw)])
     /\ lastGet' = NoLast
     /\ UNCHANGED <<store, cache>>
  \/ StoreFails(p, "deleteFeedImage", "x_get", action)
  \/ \* await feedModel.getFeedById(feed_id), then the gate
     /\ c.op = "deleteFeedImage" /\ c.pc = "x_get"
     /\ Put(p,
                    AfterGate(c, action, feedModel_getFeedById(c.fid), "x_count"))
     /\ UNCHANGED <<store, cache, lastGet>>
  \/ StoreFails(p, "deleteFeedImage", "x_count", action)
  \/ \* await feedModel.getFeedImageCount(feed_id), then the last-image check
     /\ c.op = "deleteFeedImage" /\ c.pc = "x_count"
     /\ LET imageCount == feedModel_getFeedImageCount(c.fid)
            c1 == [c EXCEPT !.storeCalls = @ + 1, !.count = imageCount]
        IN Put(p,
                       IF IsLastImage(imageCount)
                       THEN Reject(c1, action, "Can't delete last image, need at least one image")
                       ELSE [c1 EXCEPT !.pc = "x_write"])
     /\ UNCHANGED <<store, cache, lastGet>>
  \/ StoreFails(p, "deleteFeedImage", "x_write", action)
  \/ \* return await feedModel.deleteFeedImage(feed_id, image_id)
     /\ c.op = "deleteFeedImage" /\ c.pc = "x_write"
     /\ LET there == images[f][c.image_id] # NoUrl IN
        /\ images' = [images EXCEPT ![f][c.image_id] = NoUrl]
        /\ Put(p,
                       Finish([c EXCEPT !.storeCalls = @ + 1, !.writes = @ + 1,
                                        !.dels = @ \cup ImageCacheKeys(f)],
                              Ok(IF there THEN 1 ELSE 0)))
     /\ cache' = redisHandle_del(mode, ImageCacheKeys(f), {})
     /\ UNCHANGED <<feeds, likes, comments, nextId, lastGet>>

\* ------------------------------------------------------------------ likes
\* History: the likes in the Store when a like or unlike is invoked.
LikesNow(mode) == IF mode.hist = "mutations" THEN likes ELSE {}

\* Faulty variant, for comparison: the duplicate check left out.
LikeRejectedNever(alreadyLiked) == FALSE

\* if (alreadyLiked) in likeFeed
LikeRejected(alreadyLiked) == alreadyLiked

\* if (!alreadyLiked) in unlikeFeed
UnlikeRejected(alreadyLiked) == ~alreadyLiked

likeFeed(p, mode) ==
  LET c == calls[p]
      action == "liking feed"
      f == c.fid.id
      lk == likes \cup {<<c.uid, f>>}
  IN
  \/ \* invoked; feed_id = feed_id.trim()
     /\ Invoke(p, mode)
     /\ \E raw \in RawIds, uid \in mode.callers :
          Put(p,
                      [Idle EXCEPT !.op = "likeFeed", !.pc = "l_get", !.uid = uid,
                                   !.fid = trim(raw), !.pre = LikesNow(mode)])
     /\ lastGet' = NoLast
     /\ UNCHANGED <<store, cache>>
  \/ StoreFails(p, "likeFeed", "l_get", action)
  \/ \* await feedModel.getFeedById(feed_id); if (!feed)
     /\ c.op = "likeFeed" /\ c.pc = "l_get"
     /\ LET c1 == [c EXCEPT !.storeCalls = @ + 1] IN
        Put(p,
                    IF FeedMissing(feedModel_getFeedById(c.fid))
                    THEN Reject(c1, action, "Feed not found")
                    ELSE [c1 EXCEPT !.pc = "l_check"])
     /\ UNCHANGED <<store, cache, lastGet>>
  \/ StoreFails(p, "likeFeed", "l_check", action)
  \/ \* await feedModel.checkLikeStatus(firebase_uid, feed_id); if (alreadyLiked)
     /\ c.op = "likeFeed" /\ c.pc = "l_check"
     /\ LET c1 == [c EXCEPT !.storeCalls = @ + 1] IN
        Put(p,
                    IF LikeRejected(feedModel_checkLikeStatus(c.uid, c.fid))
                    THEN Reject(c1, action, "Already liked this feed")
                    ELSE [c1 EXCEPT !.pc = "l_write"])
     /\ UNCHANGED <<store, cache, lastGet>>
  \/ StoreFails(p, "likeFeed", "l_write", action)
  \/ \* await feedModel.likeFeed(firebase_uid, feed_id): a like of a live feed
     /\ c.op = "likeFeed" /\ c.pc = "l_write"
     /\ feeds[f].live
     /\ likes' = lk
     /\ cache' = CacheAfterWrite(mode, cache, f, "like", lk, comments)
     /\ PutAfterWrite(mode, p, [c EXCEPT !.storeCalls = @ + 1, !.writes = @ + 1, !.pc = "l_del",
                                      !.dup = (<<c.uid, f>> \in likes)],
                                 f, "like", lk, comments)
     /\ UNCHANGED <<feeds, images, comments, nextId, lastGet>>
  \/ \* redisHandle.del of the like-count key; return true
     /\ c.op = "likeFeed" /\ c.pc = "l_del"
     /\ IssueDels(p, mode, action, LikeKey(f), "done", Ok(1))

unlikeFeed(p, mode) ==
  LET c == calls[p]
      action == "unliking feed"
      f == c.fid.id
      lk == likes \ {<<c.uid, f>>}
  IN
  \/ \* invoked; feed_id = feed_id.trim()
     /\ Invoke(p, mode)
     /\ \E raw \in RawIds, uid \in mode.callers :
          Put(p,
                      [Idle EXCEPT !.op = "unlikeFeed", !.pc = "n_get", !.uid = uid,
                                   !.fid = trim(raw), !.pre = LikesNow(mode)])
     /\ lastGet' = NoLast
     /\ UNCHANGED <<store, cache>>
  \/ StoreFails(p, "unlikeFeed", "n_get", action)
  \/ \* await feedModel.getFeedById(feed_id); if (!feed)
     /\ c.op = "unlikeFeed" /\ c.pc = "n_get"
     /\ LET c1 == [c EXCEPT !.storeCalls = @ + 1] IN
        Put(p,
                    IF FeedMissing(feedModel_getFeedById(c.fid))
                    THEN Reject(c1, action, "Feed not found")
                    ELSE [c1 EXCEPT !.pc = "n_check"])
     /\ UNCHANGED <<store, cache, lastGet>>
  \/ StoreFails(p, "unlikeFeed", "n_check", action)
  \/ \* await feedModel.checkLikeStatus(firebase_uid, feed_id); if (!alreadyLiked)
     /\ c.op = "unlikeFeed" /\ c.pc = "n_check"
     /\ LET c1 == [c EXCEPT !.storeCalls = @ + 1] IN
        Put(p,
                    IF UnlikeRejected(feedModel_checkLikeStatus(c.uid, c.fid))
                    THEN Reject(c1, action, "Not liked this feed before, cannot unlike")
                    ELSE [c1 EXCEPT !.pc = "n_write"])
     /\ UNCHANGED <<store, cache, lastGet>>
  \/ StoreFails(p, "unlikeFeed", "n_write", action)
  \/ \* await feedModel.unlikeFeed(firebase_uid, feed_id)
     /\ c.op = "unlikeFeed" /\ c.pc = "n_write"
     /\ likes' = lk
     /\ cache' = CacheAfterWrite(mode, cache, f, "like", lk, comments)
     /\ PutAfterWrite(mode, p, [c EXCEPT !.storeCalls = @ + 1, !.writes = @ + 1, !.pc = "n_del",
                                      !.dup = (<<c.uid, f>> \notin likes)],
                                 f, "like", lk, comments)
     /\ UNCHANGED <<feeds, images, comments, nextId, lastGet>>
  \/ \* redisHandle.del of the like-count key; return true
     /\ c.op = "unlikeFeed" /\ c.pc = "n_del"
     /\ IssueDels(p, mode, action, LikeKey(f), "done", Ok(1))

\* ------------------------------------------------------------------ reads
\* feedModel.getAllFeeds: the feeds in the Store (here, how many).
feedModel_getAllFeeds == Cardinality({f \in FeedIds : feeds[f].live})

\* The feed or null a lookup returns, as the caller sees it: its id, or 0.
FeedOrNull(feed, raw) == IF feed.live THEN raw.id ELSE 0

getFeedById(p, mode) ==
  LET c == calls[p]
      action == "retrieving feed"
  IN
  \/ \* invoked
     /\ Invoke(p, mode)
     /\ \E raw \in RawIds :
          Put(p, [Idle EXCEPT !.op = "getFeedById", !.pc = "f_get", !.fid = trim(raw)])
     /\ lastGet' = NoLast
     /\ UNCHANGED <<store, cache>>
  \/ StoreFails(p, "getFeedById", "f_get", action)
  \/ \* return await feedModel.getFeedById(feed_id.trim())
     /\ c.op = "getFeedById" /\ c.pc = "f_get"
     /\ Put(p, Finish([c EXCEPT !.storeCalls = @ + 1],
                      Ok(FeedOrNull(feedModel_getFeedById(c.fid), c.fid))))
     /\ UNCHANGED <<store, cache, lastGet>>

getAllFeeds(p, mode) ==
  LET c == calls[p]
      action == "retrieving feeds"
  IN
  \/ \* invoked
     /\ Invoke(p, mode)
     /\ Put(p, [Idle EXCEPT !.op = "getAllFeeds", !.pc = "a_get"])
     /\ lastGet' = NoLast
     /\ UNCHANGED <<store, cache>>
  \/ StoreFails(p, "getAllFeeds", "a_get", action)
  \/ \* return await feedModel.getAllFeeds()
     /\ c.op = "getAllFeeds" /\ c.pc = "a_get"
     /\ Put(p, Finish([c EXCEPT !.storeCalls = @ + 1], Ok(feedModel_getAllFeeds)))
     /\ UNCHANGED <<store, cache, lastGet>>

checkLikeStatus(p, mode) ==
  LET c == calls[p]
      action == "checking like status"
  IN
  \/ \* invoked; feed_id = feed_id.trim()
     /\ Invoke(p, mode)
     /\ \E raw \in RawIds, uid \in mode.callers :
          Put(p, [Idle EXCEPT !.op = "checkLikeStatus", !.pc = "s_get", !.uid = uid,
                               !.fid = trim(raw)])
     /\ lastGet' = NoLast
     /\ UNCHANGED <<store, cache>>
  \/ StoreFails(p, "checkLikeStatus", "s_get", action)
  \/ \* await feedModel.getFeedById(feed_id); if (!feed)
     /\ c.op = "checkLikeStatus" /\ c.pc = "s_get"
     /\ LET c1 == [c EXCEPT !.storeCalls = @ + 1] IN
        Put(p, IF FeedMissing(feedModel_getFeedById(c.fid))
               THEN Reject(c1, action, "Feed not found")
               ELSE [c1 EXCEPT !.pc = "s_check"])
     /\ UNCHANGED <<store, cache, lastGet>>
  \/ StoreFails(p, "checkLikeStatus", "s_check", action)
  \/ \* return await feedModel.checkLikeStatus(firebase_uid, feed_id)
     /\ c.op = "checkLikeStatus" /\ c.pc = "s_check"
     /\ Put(p, Finish([c EXCEPT !.storeCalls = @ + 1],
                      Ok(IF feedModel_checkLikeStatus(c.uid, c.fid) THEN 1 ELSE 0)))
     /\ UNCHANGED <<store, cache, lastGet>>

\* ---------------------------------------------------------- specifications
FeedCalls(p, mode) ==
  \/ createFeed(p, mode)
  \/ updateFeed(p, mode)
  \/ deleteFeed(p, mode)

ImageCalls(p, mode) ==
  \/ updateFeedImage(p, mode)
  \/ deleteFeedImage(p, mode)

LikeCalls(p, mode) ==
  \/ likeFeed(p, mode)
  \/ unlikeFeed(p, mode)

CountCalls(p, mode) ==
  \/ getLikeCount(p, mode)
  \/ getCommentCount(p, mode)

ReadCalls(p, mode) ==
  \/ getFeedById(p, mode)
  \/ getAllFeeds(p, mode)
  \/ checkLikeStatus(p, mode)

Sequential == [seq |-> TRUE, cacheFails |-> TRUE, hist |-> "mutations",
               callers |-> Users, imageUrls |-> ImageUrlInputs, imageIds |-> 1..2]
Concurrent == [seq |-> FALSE, cacheFails |-> TRUE, hist |-> "none",
               callers |-> Users, imageUrls |-> ImageUrlInputs, imageIds |-> 1..2]
Timed == [seq |-> FALSE, cacheFails |-> TRUE, hist |-> "ages",
          callers |-> {"u1"}, imageUrls |-> {<<"a.jpg", "b.jpg">>}, imageIds |-> 1..2]

Live == [seq |-> FALSE, cacheFails |-> TRUE, hist |-> "none",
         callers |-> {"u1"}, imageUrls |-> {<<"a.jpg", "b.jpg">>}, imageIds |-> 1..2]

Whole == [seq |-> TRUE, cacheFails |-> TRUE, hist |-> "calls",
          callers |-> Users, imageUrls |-> ImageUrlInputs, imageIds |-> ImageIds]

\* The feed, its likes and its cached counters, one call at a time, with
\* time passing.
NextSeq ==
  \/ \E p \in Procs : FeedCalls(p, Sequential)
  \/ \E p \in Procs : LikeCalls(p, Sequential)
  \/ \E p \in Procs : CountCalls(p, Sequential)
  \/ \E f \in FeedIds : CommentAdded(f, Sequential)
  \/ Tick(Sequential)

SpecSeq == Init /\ [][NextSeq]_vars

\* The feed and its images, calls running concurrently and interleaved at
\* their awaits.
NextFeeds ==
  \/ \E p \in Procs : FeedCalls(p, Concurrent)
  \/ \E p \in Procs : ImageCalls(p, Concurrent)

SpecFeeds == Init /\ [][NextFeeds]_vars

\* Every exported operation, one call at a time.
NextAll ==
  \/ \E p \in Procs : FeedCalls(p, Whole)
  \/ \E p \in Procs : ImageCalls(p, Whole)
  \/ \E p \in Procs : LikeCalls(p, Whole)
  \/ \E p \in Procs : CountCalls(p, Whole)
  \/ \E p \in Procs : ReadCalls(p, Whole)

SpecAll == Init /\ [][NextAll]_vars

\* The likes and the cached counters, calls running concurrently and
\* interleaved at their awaits, with time passing.
NextCounters ==
  \/ \E p \in Procs : createFeed(p, Timed)
  \/ \E p \in Procs : LikeCalls(p, Timed)
  \/ \E p \in Procs : CountCalls(p, Timed)
  \/ \E f \in FeedIds : CommentAdded(f, Timed)
  \/ Tick(Timed)

SpecCounters == Init /\ [][NextCounters]_vars

\* The likes, the feed and the cached like count, calls running concurrently,
\* with time passing and every started call resumed.
NextLive ==
  \/ \E p \in Procs : createFeed(p, Live)
  \/ \E p \in Procs : deleteFeed(p, Live)
  \/ \E p \in Procs : LikeCalls(p, Live)
  \/ \E p \in Procs : getLikeCount(p, Live)
  \/ Tick(Live)

\* The continuation of the call suspended in slot p: the event loop runs it
\* once the awaited promise has settled.
Resume(p) ==
  /\ ~Free(p)
  /\ \/ createFeed(p, Live)
     \/ deleteFeed(p, Live)
     \/ LikeCalls(p, Live)
     \/ getLikeCount(p, Live)

\* Time keeps passing, and no suspended call is left waiting forever.
SpecLive ==
  /\ Init
  /\ [][NextLive]_vars
  /\ WF_vars(Tick(Live))
  /\ \A p \in Procs : WF_vars(Resume(p))

\* ------------------------------------------------------------------ claims
AuthOps == {"updateFeed", "deleteFeed", "updateFeedImage", "deleteFeedImage"}
CountOps == {"getLikeCount", "getCommentCount"}

\* The author of the feed a caller names, NoUser when there is no such feed.
AuthorOf(fid) == IF fid.pad THEN NoUser ELSE feeds[fid.id].firebase_uid

\* C1: updateFeed, deleteFeed, updateFeedImage and deleteFeedImage succeed
\* only for the feed's author: no step of a call whose acting identity is not
\* the author changes the Store, such a call never returns a normal result,
\* and when its lookup finds the feed it fails with "Permission denied"
\* (a failing Store lookup surfaces as the Store's failure instead).
C1_OnlyAuthorMutates ==
  [][\A p \in Procs :
       LET c == calls[p] IN
       (c.op \in AuthOps /\ calls'[p] # c /\ AuthorOf(c.fid) # c.uid)
         => /\ UNCHANGED store
            /\ calls'[p] = Idle => ~last'.res.ok
            /\ (calls'[p] = Idle /\ AuthorOf(c.fid) # NoUser /\ feeds[c.fid.id].live)
                 => last'.res.msg \in {"Permission denied", StoreFailure}]_vars

C1_Witness ==
  /\ last.op \in AuthOps
  /\ last.res.msg = "Permission denied"
  /\ feeds[last.fid.id].live
  /\ feeds[last.fid.id].firebase_uid # last.uid

\* C2: a live feed that was created with images always has at least one.
C2_ImageFloor ==
  \A f \in FeedIds :
    (feeds[f].live /\ feeds[f].withImages)
      => feedModel_getFeedImageCount([id |-> f, pad |-> FALSE]) >= 1

\* The call that just returned, and the feed and cache key it was about.
LastKey == <<KindOf(last.op), last.fid.id>>
LastPair == <<last.uid, last.fid.id>>
LastIsHit == last.op \in CountOps /\ IsCacheHit(last.cached)

C4_LikeUnlikeSequential ==
  (last.op \in {"likeFeed", "unlikeFeed"} /\ feeds[last.fid.id].live)
    => /\ ~last.res.ok => likes = last.pre
       /\ (last.op = "likeFeed" /\ last.res.ok) => likes = last.pre \cup {LastPair}
       /\ (last.op = "unlikeFeed" /\ last.res.ok) => likes = last.pre \ {LastPair}
       /\ (last.op = "likeFeed" /\ last.res.msg # StoreFailure)
            => IF LastPair \in last.pre
               THEN last.res = Error("Already liked this feed")
               ELSE last.res = Ok(1)
       /\ (last.op = "unlikeFeed" /\ last.res.msg # StoreFailure)
            => IF LastPair \in last.pre
               THEN last.res = Ok(1)
               ELSE last.res = Error("Not liked this feed before, cannot unlike")

C4_Witness ==
  /\ last.op = "likeFeed"
  /\ last.res = Error("Already liked this feed")
  /\ LastPair \in last.pre
  /\ likes = last.pre

\* C5 as stated: a present cache entry's value equalled the Store's count at
\* some moment no more than TTL seconds ago.
C5_FreshWithinTtl ==
  \A k \in Keys : cache[k].present => cache[k].okAge <= TTL

\* C5, amended: a present cache entry's value equalled the Store's count at
\* some moment no more than TTL seconds, plus the time that passed between
\* the Store count read and the cache write of the call that wrote it, ago.
C5_FreshWithinTtlPlusDelay ==
  \A k \in Keys : cache[k].present => cache[k].okAge <= TTL + cache[k].delay

C5_Witness ==
  \E k \in Keys :
    /\ cache[k].present
    /\ cache[k].delay > 0
    /\ cache[k].okAge > cache[k].delay

\* C6: every successful createFeed, updateFeed and deleteFeed has issued a del
\* of both the like-count and the comment-count key of its feed before it
\* returns, and every successful likeFeed and unlikeFeed a del of the
\* like-count key.
C6_SuccessIssuedDels ==
  last.res.ok =>
    /\ last.op = "createFeed"
         => {<<"likeCount", last.feedId>>, <<"commentCount", last.feedId>>} \subseteq last.dels
    /\ last.op \in {"updateFeed", "deleteFeed"}
         => {<<"likeCount", last.fid.id>>, <<"commentCount", last.fid.id>>} \subseteq last.dels
    /\ last.op \in {"likeFeed", "unlikeFeed"}
         => <<"likeCount", last.fid.id>> \in last.dels

C6_Witness ==
  /\ last.op = "deleteFeed"
  /\ last.res = Ok(1)
  /\ last.dels = {<<"likeCount", last.fid.id>>, <<"commentCount", last.fid.id>>}

\* C7: a counter read whose cache get answers with an entry returns the
\* integer that was stored (its decimal string is the entry's string), "0"
\* included, and makes no Store call.
C7_HitReturnsStoredWithoutStore ==
  (last.op \in CountOps /\ last.cached.present)
    => /\ last.res.ok
       /\ NumToStr(last.res.val) = last.cached.val
       /\ last.storeCalls = 0

C7_Witness ==
  /\ last.op \in CountOps
  /\ last.cached.present
  /\ last.cached.val = <<"0">>
  /\ last.res = Ok(0)

\* C8: a counter read that misses the cache for a feed that is not in the
\* Store fails, with "Feed not found" unless the Store lookup itself failed,
\* and the cache holds no entry for the key afterwards.
C8_MissOnAbsentFeed ==
  (last.op \in CountOps /\ last.storeCalls >= 1 /\ ~feeds[last.fid.id].live)
    => /\ ~last.res.ok
       /\ last.res.msg # StoreFailure => last.res.msg = "Feed not found"
       /\ ~cache[LastKey].present

C8_Witness ==
  /\ last.op \in CountOps
  /\ ~last.cached.present
  /\ ~feeds[last.fid.id].live
  /\ last.res = Error("Feed not found")
  /\ ~cache[LastKey].present

\* C9: a getLikeCount that returns normally, and follows a getLikeCount of
\* the same feed that returned less than TTL seconds before with its cache
\* commands working and no call in between, returns the same integer, and
\* the two calls do not both query the Store's like count.
C9_RepeatedReadQueriesOnce ==
  (last.op = "getLikeCount" /\ last.res.ok /\ last.prev.valid)
    => /\ last.res.val = last.prev.val
       /\ ~(last.queried /\ last.prev.queried)

C9_Witness ==
  /\ last.op = "getLikeCount"
  /\ last.res = Ok(0)
  /\ last.prev.valid
  /\ last.prev.queried
  /\ last.prev.age > 0

\* C10: a call whose cache write (the setex of a counter read, a del of a
\* mutation) failed returns what it returns when the write works: the counter
\* read the count it computed, createFeed the new id, likeFeed and unlikeFeed
\* true, updateFeed and deleteFeed the outcome of the Store write that
\* follows the dels.
C10_CacheWriteFailureSwallowed ==
  last.lost =>
    /\ last.res.msg # CacheFailure
    /\ last.op \in CountOps => last.res = Ok(last.count)
    /\ last.op = "createFeed" => last.res = Ok(last.feedId)
    /\ last.op \in {"likeFeed", "unlikeFeed"} => last.res = Ok(1)
    /\ last.op \in {"updateFeed", "deleteFeed"}
         => last.res.ok \/ last.res.msg = StoreFailure

C10_Witness ==
  /\ last.lost
  /\ last.op = "getLikeCount"
  /\ last.res = Ok(last.count)
  /\ ~cache[LastKey].present

\* The number of images among the image rows of a feed.
ImageCount(rows) == Cardinality({i \in ImageIds : rows[i] # NoUrl})

LastImageMsg == "Can't delete last image, need at least one image"

\* C11: with calls one at a time, a deleteFeedImage by the author of an
\* existing feed that had n images when the call was made, and unless a Store
\* call itself fails: when n <= 1 it fails with "Can't delete last image, need
\* at least one image" and the feed's images are as they were; when n >= 2
\* and the image is one of the feed's, it succeeds, that image is gone and
\* n - 1 images are left.
C11_DeleteImageSequential ==
  (/\ last.op = "deleteFeedImage"
   /\ ~last.fid.pad
   /\ feeds[last.fid.id].live
   /\ feeds[last.fid.id].firebase_uid = last.uid
   /\ last.failure # StoreFailure)
    => LET n == ImageCount(last.preImages)
           now == images[last.fid.id]
       IN /\ n <= 1 => last.res = Error(LastImageMsg) /\ now = last.preImages
          /\ (n >= 2 /\ last.preImages[last.image_id] # NoUrl)
               => /\ last.res.ok
                  /\ now[last.image_id] = NoUrl
                  /\ ImageCount(now) = n - 1

C11_Witness ==
  /\ last.op = "deleteFeedImage"
  /\ feeds[last.fid.id].live
  /\ feeds[last.fid.id].withImages
  /\ feeds[last.fid.id].firebase_uid = last.uid
  /\ ImageCount(last.preImages) = 1
  /\ last.res = Error(LastImageMsg)
  /\ ImageCount(images[last.fid.id]) = 1

\* C12: under every interleaving, likeFeed persists a like only of a pair
\* that is not liked and unlikeFeed removes a like only of a pair that is
\* liked: no call asks the Store to persist a like that is already there, or
\* to remove one that is not.
C12_NoDuplicateLike ==
  \A p \in Procs : ~calls[p].dup

\* C13: a counter read that read its count before a mutation can write the
\* cache after the mutation has returned, leaving an entry that differs from
\* the Store's count (the witness); every entry, that one included, is
\* present, and served by a hit, for less than TTL seconds from the moment it
\* was written.
C13_ServedWithinTtlOfWrite ==
  /\ \A k \in Keys : cache[k].present => cache[k].age < TTL
  /\ LastIsHit => last.cached.age < TTL

C13_Witness ==
  /\ last.op = "getLikeCount"
  /\ last.sets = 1
  /\ ~last.lost
  /\ \A p \in Procs : Free(p)
  /\ cache[LastKey].present
  /\ cache[LastKey].age = 0
  /\ parseInt(cache[LastKey].val) # feedModel_getLikeCount(last.fid.id)

ImageOps == {"updateFeedImage", "deleteFeedImage"}

\* C14: no step of updateFeedImage or deleteFeedImage changes a cache entry,
\* and a call of either that returns, normally or not, has issued no cache
\* get, setex or del.
C14_ImageCallsLeaveCache ==
  [][\A p \in Procs :
       LET c == calls[p] IN
       (c.op \in ImageOps /\ calls'[p] # c)
         => /\ cache' = cache
            /\ calls'[p] = Idle
                 => last'.gets = 0 /\ last'.sets = 0 /\ last'.dels = {}]_vars

C14_Witness ==
  /\ last.op \in ImageOps
  /\ last.res = Ok(1)
  /\ \E k \in Keys : k[2] = last.fid.id /\ cache[k].present

\* The operations that look the feed up first and throw when there is none.
LookupOps == AuthOps \cup CountOps \cup {"likeFeed", "unlikeFeed", "checkLikeStatus"}

\* C15: a call that met a failure (a Store call or the cache get failing, a
\* check of the service failing) ends with an error that carries that
\* failure's message, and a call that returns normally met none; in
\* particular a call whose lookup found no feed does not return normally.
C15_FailureReachesCaller ==
  /\ last.failure # "" => last.res = Error(last.failure)
  /\ last.res.ok => last.failure = ""
  /\ (/\ last.op \in LookupOps
      /\ last.storeCalls >= 1
      /\ last.writes = 0
      /\ last.fid.pad \/ ~feeds[last.fid.id].live)
       => ~last.res.ok /\ last.res.msg \in {"Feed not found", StoreFailure}

C15_Witness ==
  /\ last.op = "getLikeCount"
  /\ last.gets = 1
  /\ last.failure = CacheFailure
  /\ last.res = Error(CacheFailure)

\* C17: with calls one at a time and between calls, a like-count entry that
\* no failed del left behind belongs to a feed that is in the Store, and its
\* value is the number of likes the Store holds for that feed.
C17_LikeEntryMatchesStore ==
  (\A p \in Procs : Free(p))
    => \A f \in FeedIds :
         LET entry == cache[<<"likeCount", f>>] IN
         (entry.present /\ ~entry.delLost)
           => feeds[f].live /\ parseInt(entry.val) = feedModel_getLikeCount(f)

C17_Witness ==
  /\ \A p \in Procs : Free(p)
  /\ \E f \in FeedIds :
       /\ cache[<<"likeCount", f>>].present
       /\ cache[<<"likeCount", f>>].val = <<"1">>
       /\ cache[<<"likeCount", f>>].stale = "no"
       /\ feedModel_getLikeCount(f) = 1

\* The messages of the errors the service throws itself.
BusinessMsgs ==
  {"Feed not found", "Permission denied", "Already liked this feed",
   "Not liked this feed before, cannot unlike", LastImageMsg}

\* C18: a call that one of the service's own checks turns down ("Feed not
\* found", "Permission denied", "Already liked this feed", "Not liked this
\* feed before, cannot unlike", the last-image message) has made no Store
\* write and issued no cache del or setex, and the step in which it is turned
\* down changes neither the Store nor the cache.
C18_RejectedCallChangesNothing ==
  [][\A p \in Procs :
       (calls[p].op # "idle" /\ calls'[p] = Idle /\ last'.failure \in BusinessMsgs)
         => /\ UNCHANGED <<store, cache>>
            /\ last'.writes = 0
            /\ last'.dels = {}
            /\ last'.sets = 0]_vars

C18_Witness ==
  /\ last.op = "updateFeed"
  /\ last.failure = "Permission denied"
  /\ cache[<<"likeCount", last.fid.id>>].present
  /\ cache[<<"commentCount", last.fid.id>>].present

\* C19: createFeed is all-or-nothing: when a createFeed call has failed, the
\* Store holds no feed record that this call created.
C19_CreateFeedAllOrNothing ==
  (last.op = "createFeed" /\ ~last.res.ok)
    => (last.feedId = 0 \/ ~feeds[last.feedId].live)

\* A step that changes a feed or the likes in the Store.
Mutation == feeds' # feeds \/ likes' # likes

\* A getLikeCount call on an existing feed has just returned a count.
ReturnedLikeCount ==
  /\ last.op = "getLikeCount"
  /\ last.res.ok
  /\ ~last.fid.pad
  /\ feeds[last.fid.id].live

\* C16: if from some point on no step changes the feeds or the likes, while
\* time keeps passing and every started call is resumed, then from some point
\* on every getLikeCount call on an existing feed returns the Store's like
\* count of that feed: a hit does not renew the entry's time to live, so a
\* stale entry expires.
C16_EventuallyCurrentCount ==
  (<>[][~Mutation]_vars)
    => <>[](ReturnedLikeCount => last.res.val = feedModel_getLikeCount(last.fid.id))

C16_Witness ==
  /\ ReturnedLikeCount
  /\ IsCacheHit(last.cached)
  /\ last.res.val # feedModel_getLikeCount(last.fid.id)
  /\ \A p \in Procs : Free(p)

====
